---- MODULE Spec2Model ----
(***************************************************************************)
(* hypercube-visualization.tsx: HypercubeVisualization, Scene,             *)
(* SimpleHypercube and TextLabel as one state machine.                     *)
(*                                                                         *)
(* A useState cell and the value a render read from it are two variables:  *)
(* a setter writes the cell (xxxState), the next render copies the cell    *)
(* into the value the handlers and effects of that render close over       *)
(* (hovered, clicked, soundEnabled, highContrast).                         *)
(*                                                                         *)
(* All three effects are useEffect effects: a commit (mount, re-render,    *)
(* unmount) only schedules them, and they and their cleanups run in a      *)
(* later step (effectsPending).  Event handlers and animation frames can   *)
(* run in between; the next render, mount or unmount cannot, because React *)
(* flushes pending effects before it renders again.                        *)
(*                                                                         *)
(* Units: angles of the group in degrees (Math.PI / 4 = 45), rotation      *)
(* accumulators in thousandths of a radian (0.001 = 1), gain in tenths     *)
(* (0.2 = 2).                                                              *)
(***************************************************************************)
EXTENDS Integers, FiniteSets, Sequences, TLC

\* ---- bounds of the exploration ----
MaxMounts == 2
MaxClicks == 2
MaxFrames == 2
MaxContexts == 3

\* ---- program constants ----
NumLayers == 5
HoverFrequency == 40
IdleFrequency == 10
HoverGainTenths == 2
IdleGainTenths == 0
RotXStep == 1
RotYStep == 2
ClickedAngle == 45

Layers == 0 .. (NumLayers - 1)
Instances == 1 .. MaxMounts

\* the statements of the audio effect's try block that can throw, in order
SetupSteps == <<"AudioContext", "createOscillator", "createGain", "connect", "start">>
NoFault == "none"
Faults == {SetupSteps[i] : i \in 1 .. Len(SetupSteps)}

VARIABLES
    mounted,            \* the component tree is committed (rendered, refs attached)
    effectsPending,     \* effects scheduled by the last commit: none, mount, update, unmount
    mounts,             \* number of mounts so far; also names the current instance
    crashed,            \* a render error left TextLabel and unmounted the tree
    textThrew,          \* the Text component threw while a TextLabel was rendered
    highContrastState,  \* useState cells
    soundEnabledState,
    hoveredState,
    clickedState,
    highContrast,       \* values read by the last render
    soundEnabled,
    hovered,
    clicked,
    nClicks,            \* click events since the mount
    listeners,          \* <<container, event type, function>> registrations
    audioSupported,     \* window.AudioContext || window.webkitAudioContext exists
    audioContexts,      \* open (constructed, not closed) audio contexts
    oscillators,        \* started-and-not-stopped oscillators
    audioCleanup,       \* audioContext / oscillator closed over by the pending cleanup
    ctxCount,           \* audio contexts constructed so far
    rafPending,         \* scheduled animation frame requests
    rafHandle,          \* next handle requestAnimationFrame returns
    animationId,        \* animationId of each instance's effect closure
    groupRef,           \* instance whose groupRef.current is attached, 0 = null
    rotation,           \* rotation.x / rotation.y of the rendered group
    animateRuns,        \* calls of animate since the mount
    groupRotationZ,     \* rendered output of Scene and SimpleHypercube
    fractalPresent,
    layerPosition,
    stageLabels,
    fractalLabel

hookVars == <<highContrastState, soundEnabledState, hoveredState, clickedState>>
renderVars == <<highContrast, soundEnabled, hovered, clicked>>
outputVars == <<groupRotationZ, fractalPresent, layerPosition, stageLabels, fractalLabel>>
audioVars == <<audioContexts, oscillators, audioCleanup, ctxCount>>
rafVars == <<rafPending, rafHandle, animationId, rotation, animateRuns>>
vars == <<mounted, effectsPending, mounts, crashed, textThrew, hookVars, renderVars, nClicks,
          listeners, audioSupported, audioVars, rafVars, groupRef, outputVars>>

\* ---------------------------------------------------------------------------
\* HypercubeVisualization: gesture suppression listeners
\* ---------------------------------------------------------------------------
SuppressedEvents == {"contextmenu", "selectstart"}

AddListeners(ls, container, fn) ==
    ls \cup {<<container, "contextmenu", fn>>, <<container, "selectstart", fn>>}

\* faulty variant: the cleanup forgets the selectstart listener
RemoveListeners_ContextMenuOnly(ls, container, fn) ==
    ls \ {<<container, "contextmenu", fn>>}

RemoveListeners(ls, container, fn) ==
    ls \ {<<container, "contextmenu", fn>>, <<container, "selectstart", fn>>}

\* ---------------------------------------------------------------------------
\* Scene: audio effect
\* ---------------------------------------------------------------------------
FaultPos(f) ==
    IF f = NoFault THEN Len(SetupSteps) + 1
    ELSE CHOOSE i \in 1 .. Len(SetupSteps) : SetupSteps[i] = f

ToneFrequency(h) == IF h THEN HoverFrequency ELSE IdleFrequency
ToneGain(h) == IF h THEN HoverGainTenths ELSE IdleGainTenths

NoCleanup == [audioContext |-> 0, oscillator |-> 0]

\* the effect constructs an audio context: sound on, constructor present and not throwing
Constructs(se, f) == se /\ audioSupported /\ FaultPos(f) > 1

\* audioContext / oscillator as assigned when the try block is left
EffectCleanup(se, f, id) ==
    IF ~Constructs(se, f) THEN NoCleanup
    ELSE [audioContext |-> id, oscillator |-> IF FaultPos(f) > 2 THEN id ELSE 0]

EffectContexts(se, f, id) == IF Constructs(se, f) THEN {id} ELSE {}

EffectOscillators(se, h, f, id) ==
    IF Constructs(se, f) /\ f = NoFault
    THEN {[id |-> id, frequency |-> ToneFrequency(h), gain |-> ToneGain(h)]}
    ELSE {}

\* oscillator.stop() on a node that was never started throws InvalidStateError
StopThrows(cl, oscs) ==
    cl.oscillator # 0 /\ cl.oscillator \notin {o.id : o \in oscs}

OscillatorsAfterCleanup(cl, oscs) == {o \in oscs : o.id # cl.oscillator}

\* faulty variant: the cleanup stops the oscillator but never closes the context
ContextsAfterCleanup_NoClose(cl, ctxs, oscs) == ctxs

ContextsAfterCleanup(cl, ctxs, oscs) ==
    IF cl.audioContext # 0 /\ ~StopThrows(cl, oscs)
    THEN ctxs \ {cl.audioContext}
    ELSE ctxs

\* faulty variant: hovered left out of the dependency list
AudioDepsChanged_SoundOnly(se0, h0, se1, h1) == se0 # se1

\* dependency list [soundEnabled, hovered]
AudioDepsChanged(se0, h0, se1, h1) == se0 # se1 \/ h0 # h1

\* ---------------------------------------------------------------------------
\* SimpleHypercube: animation loop and layout
\* ---------------------------------------------------------------------------
\* faulty variant: the y accumulator gets the x increment
RotationAfterAnimate_SameStep(rot, attached) ==
    IF attached THEN [x |-> rot.x + RotXStep, y |-> rot.y + RotXStep] ELSE rot

RotationAfterAnimate(rot, attached) ==
    IF attached THEN [x |-> rot.x + RotXStep, y |-> rot.y + RotYStep] ELSE rot

\* faulty variant: the cleanup does not cancel the pending request
CancelAnimation_Skipped(id, pending) == pending

CancelAnimation(id, pending) ==
    IF id # 0 THEN {r \in pending : r.id # id} ELSE pending

\* faulty variant: the fan is centred on index 1
getLayerPosition_OffCentre(index, h) ==
    IF ~h THEN <<0, 0, 0>> ELSE <<0, (index - 1) * 2, 0>>

getLayerPosition(index, h) ==
    IF ~h THEN <<0, 0, 0>> ELSE <<0, (index - 2) * 2, 0>>

\* faulty variant: the branches of the conditional are swapped
GroupRotationZ_Swapped(c) == IF c THEN 0 ELSE ClickedAngle

GroupRotationZ(c) == IF c THEN ClickedAngle ELSE 0

FractalPresent(c) == c

\* ---------------------------------------------------------------------------
\* TextLabel
\* ---------------------------------------------------------------------------
\* The try block only builds the <Text> element; building an element calls
\* nothing of Text, so it never throws and the catch branch is never taken.
ElementCreationThrows == FALSE

TextLabel == IF ElementCreationThrows THEN "sphere" ELSE "Text"

StageLabels(h) == IF h THEN TextLabel ELSE "none"
FractalLabel(c) == IF c THEN TextLabel ELSE "none"

\* ---------------------------------------------------------------------------
\* Initial state: nothing mounted yet
\* ---------------------------------------------------------------------------
Init ==
    /\ mounted = FALSE
    /\ effectsPending = "none"
    /\ mounts = 0
    /\ crashed = FALSE
    /\ textThrew = FALSE
    /\ highContrastState = FALSE
    /\ soundEnabledState = FALSE
    /\ hoveredState = FALSE
    /\ clickedState = FALSE
    /\ highContrast = FALSE
    /\ soundEnabled = FALSE
    /\ hovered = FALSE
    /\ clicked = FALSE
    /\ nClicks = 0
    /\ listeners = {}
    /\ audioSupported \in BOOLEAN
    /\ audioContexts = {}
    /\ oscillators = {}
    /\ audioCleanup = NoCleanup
    /\ ctxCount = 0
    /\ rafPending = {}
    /\ rafHandle = 1
    /\ animationId = [i \in Instances |-> 0]
    /\ groupRef = 0
    /\ rotation = [x |-> 0, y |-> 0]
    /\ animateRuns = 0
    /\ groupRotationZ = 0
    /\ fractalPresent = FALSE
    /\ layerPosition = [i \in Layers |-> <<0, 0, 0>>]
    /\ stageLabels = "none"
    /\ fractalLabel = "none"

\* rendered output for the values a render reads
RenderOutput(h, c) ==
    /\ groupRotationZ' = GroupRotationZ(c)
    /\ fractalPresent' = FractalPresent(c)
    /\ layerPosition' = [i \in Layers |-> getLayerPosition(i, h)]
    /\ stageLabels' = StageLabels(h)
    /\ fractalLabel' = FractalLabel(c)

\* first render and commit: the refs are attached, the effects are scheduled
Mount ==
    /\ ~mounted
    /\ effectsPending = "none"
    /\ mounts < MaxMounts
    /\ mounted' = TRUE
    /\ effectsPending' = "mount"
    /\ mounts' = mounts + 1
    /\ crashed' = FALSE
    /\ textThrew' = FALSE
    /\ highContrastState' = FALSE
    /\ soundEnabledState' = FALSE
    /\ hoveredState' = FALSE
    /\ clickedState' = FALSE
    /\ highContrast' = FALSE
    /\ soundEnabled' = FALSE
    /\ hovered' = FALSE
    /\ clicked' = FALSE
    /\ nClicks' = 0
    /\ RenderOutput(FALSE, FALSE)
    /\ groupRef' = mounts + 1
    /\ rotation' = [x |-> 0, y |-> 0]
    /\ animateRuns' = 0
    /\ UNCHANGED <<listeners, audioSupported, audioVars, rafPending, rafHandle, animationId>>

\* the audio effect of the last render: cleanup of the previous run, then the
\* effect body; f is the statement of the try block that throws
AudioEffect(f) ==
    /\ audioContexts' =
           ContextsAfterCleanup(audioCleanup, audioContexts, oscillators)
             \cup EffectContexts(soundEnabled, f, ctxCount + 1)
    /\ oscillators' =
           OscillatorsAfterCleanup(audioCleanup, oscillators)
             \cup EffectOscillators(soundEnabled, hovered, f, ctxCount + 1)
    /\ audioCleanup' = EffectCleanup(soundEnabled, f, ctxCount + 1)
    /\ ctxCount' = IF Constructs(soundEnabled, f) THEN ctxCount + 1 ELSE ctxCount

\* first run of the three effects: listeners, audio (returns at once, sound is
\* off), animate() with the first frame request
MountEffects ==
    /\ effectsPending = "mount"
    /\ effectsPending' = "none"
    /\ listeners' = AddListeners(listeners, mounts, mounts)
    /\ AudioEffect(NoFault)
    /\ rotation' = RotationAfterAnimate(rotation, groupRef = mounts)
    /\ animationId' = [animationId EXCEPT ![mounts] = rafHandle]
    /\ rafPending' = rafPending \cup {[id |-> rafHandle, inst |-> mounts]}
    /\ rafHandle' = rafHandle + 1
    /\ animateRuns' = animateRuns + 1
    /\ UNCHANGED <<mounted, mounts, crashed, textThrew, hookVars, renderVars, nClicks,
                   audioSupported, groupRef, outputVars>>

\* the tree is removed: refs detached, cleanups scheduled
Teardown ==
    /\ mounted' = FALSE
    /\ effectsPending' = "unmount"
    /\ groupRef' = 0
    /\ UNCHANGED <<mounts, hookVars, renderVars, nClicks, listeners, audioSupported,
                   audioVars, rafVars, outputVars>>

Unmount ==
    /\ mounted
    /\ effectsPending = "none"
    /\ Teardown
    /\ UNCHANGED <<crashed, textThrew>>

\* cleanups of the three effects
UnmountCleanups ==
    /\ effectsPending = "unmount"
    /\ effectsPending' = "none"
    /\ listeners' = RemoveListeners(listeners, mounts, mounts)
    /\ audioContexts' = ContextsAfterCleanup(audioCleanup, audioContexts, oscillators)
    /\ oscillators' = OscillatorsAfterCleanup(audioCleanup, oscillators)
    /\ audioCleanup' = NoCleanup
    /\ rafPending' = CancelAnimation(animationId[mounts], rafPending)
    /\ UNCHANGED <<mounted, mounts, crashed, textThrew, hookVars, renderVars, nClicks,
                   audioSupported, ctxCount, rafHandle, animationId, rotation,
                   animateRuns, groupRef, outputVars>>

\* ---- event handlers: each writes one useState cell ----
HandlerFrame ==
    UNCHANGED <<mounted, effectsPending, mounts, crashed, textThrew, renderVars,
                listeners, audioSupported, audioVars, rafVars, groupRef, outputVars>>

PointerOver ==
    /\ mounted
    /\ hoveredState' = TRUE
    /\ UNCHANGED <<highContrastState, soundEnabledState, clickedState, nClicks>>
    /\ HandlerFrame

PointerOut ==
    /\ mounted
    /\ hoveredState' = FALSE
    /\ UNCHANGED <<highContrastState, soundEnabledState, clickedState, nClicks>>
    /\ HandlerFrame

\* setClicked(!clicked): clicked is the value the last render read
OnClickValue(c) == ~c

Click ==
    /\ mounted
    /\ nClicks < MaxClicks
    /\ clickedState' = OnClickValue(clicked)
    /\ nClicks' = nClicks + 1
    /\ UNCHANGED <<highContrastState, soundEnabledState, hoveredState>>
    /\ HandlerFrame

\* the switches call setHighContrast / setSoundEnabled with the checked value
ToggleHighContrast ==
    /\ mounted
    /\ \E v \in BOOLEAN : highContrastState' = v
    /\ UNCHANGED <<soundEnabledState, hoveredState, clickedState, nClicks>>
    /\ HandlerFrame

ToggleSound ==
    /\ mounted
    /\ \E v \in BOOLEAN : soundEnabledState' = v
    /\ UNCHANGED <<highContrastState, hoveredState, clickedState, nClicks>>
    /\ HandlerFrame

\* ---- re-render ----
Dirty == hookVars # renderVars

\* a re-render and its commit; the audio effect is scheduled when a dependency changed
Render ==
    /\ mounted
    /\ effectsPending = "none"
    /\ Dirty
    /\ (AudioDepsChanged(soundEnabled, hovered, soundEnabledState, hoveredState)
          /\ soundEnabledState /\ audioSupported) => ctxCount < MaxContexts
    /\ highContrast' = highContrastState
    /\ soundEnabled' = soundEnabledState
    /\ hovered' = hoveredState
    /\ clicked' = clickedState
    /\ RenderOutput(hoveredState, clickedState)
    /\ effectsPending' =
          IF AudioDepsChanged(soundEnabled, hovered, soundEnabledState, hoveredState)
          THEN "update" ELSE "none"
    /\ UNCHANGED <<mounted, mounts, crashed, textThrew, hookVars, nClicks, listeners,
                   audioSupported, audioVars, rafVars, groupRef>>

RunAudioEffect(f) ==
    /\ effectsPending = "update"
    /\ effectsPending' = "none"
    /\ AudioEffect(f)
    /\ UNCHANGED <<mounted, mounts, crashed, textThrew, hookVars, renderVars, nClicks,
                   listeners, audioSupported, rafVars, groupRef, outputVars>>

\* the scheduled audio effect runs and its setup succeeds
AudioEffectRun == RunAudioEffect(NoFault)

\* the scheduled audio effect runs and its setup throws at some statement
AudioEffectFault == \E f \in Faults : RunAudioEffect(f)

\* Text throws while React renders the element TextLabel returned: the error
\* is raised outside TextLabel, no error boundary exists, the tree unmounts
RenderTextFault ==
    /\ mounted
    /\ effectsPending = "none"
    /\ Dirty
    /\ hoveredState \/ clickedState
    /\ TextLabel = "Text"
    /\ textThrew' = TRUE
    /\ crashed' = TRUE
    /\ Teardown

\* ---- one animation frame: the browser runs a requested callback ----
Frame ==
    \E r \in rafPending :
        /\ animateRuns < MaxFrames + 1
        /\ rotation' = RotationAfterAnimate(rotation, groupRef = r.inst)
        /\ rafPending' = (rafPending \ {r}) \cup {[id |-> rafHandle, inst |-> r.inst]}
        /\ animationId' = [animationId EXCEPT ![r.inst] = rafHandle]
        /\ rafHandle' = rafHandle + 1
        /\ animateRuns' = animateRuns + 1
        /\ UNCHANGED <<mounted, effectsPending, mounts, crashed, textThrew, hookVars,
                       renderVars, nClicks, listeners, audioSupported, audioVars,
                       groupRef, outputVars>>

Next ==
    \/ Mount
    \/ MountEffects
    \/ Unmount
    \/ UnmountCleanups
    \/ PointerOver
    \/ PointerOut
    \/ Click
    \/ ToggleHighContrast
    \/ ToggleSound
    \/ Render
    \/ AudioEffectRun
    \/ Frame

Spec == Init /\ [][Next]_vars

\* the same program on a platform whose audio setup or Text component can throw
NextFault ==
    \/ Next
    \/ AudioEffectFault
    \/ RenderTextFault

SpecFault == Init /\ [][NextFault]_vars

\* ---------------------------------------------------------------------------
\* Properties
\* ---------------------------------------------------------------------------

\* C1: starting from clicked = false, after n click events the clicked state
\* is true if and only if n is odd, whatever re-renders and hover events
\* happened in between.
C1_ClickParity == mounted => (clickedState <=> (nClicks % 2 = 1))

\* C2: at most one started-and-not-stopped oscillator, with its open context,
\* exists at any time; a change of soundEnabled or hovered, or the construction
\* of a new context, leaves none of the previous contexts and oscillators
\* alive; nothing is alive while soundEnabled is false or the tree is unmounted.
C2_AudioState ==
    /\ Cardinality(oscillators) <= 1
    /\ Cardinality(audioContexts) <= 1
    /\ \A o \in oscillators : o.id \in audioContexts
    /\ (~mounted \/ ~soundEnabled) => (oscillators = {} /\ audioContexts = {})

C2_AudioStep ==
    (\/ soundEnabled' # soundEnabled
     \/ hovered' # hovered
     \/ ~(audioContexts' \subseteq audioContexts))
    => /\ audioContexts \cap audioContexts' = {}
       /\ {o.id : o \in oscillators} \cap {o.id : o \in oscillators'} = {}

C2_SingleTone == []C2_AudioState /\ [][C2_AudioStep]_vars

\* C2 as amended: at most one started-and-not-stopped oscillator, with its
\* open context, exists at any time; the effect run that follows a change of
\* soundEnabled or hovered stops and closes the previous one before it
\* constructs a new one; nothing is alive while soundEnabled is false or the
\* tree is unmounted once the effect or cleanup scheduled by that commit has run.
C2_SettledState ==
    /\ Cardinality(oscillators) <= 1
    /\ Cardinality(audioContexts) <= 1
    /\ \A o \in oscillators : o.id \in audioContexts
    /\ (effectsPending = "none" /\ (~mounted \/ ~soundEnabled))
          => (oscillators = {} /\ audioContexts = {})

C2_EffectStep ==
    (\/ effectsPending = "update" /\ effectsPending' = "none"
     \/ ~(audioContexts' \subseteq audioContexts))
    => /\ audioContexts \cap audioContexts' = {}
       /\ {o.id : o \in oscillators} \cap {o.id : o \in oscillators'} = {}

C2_SingleToneOnceEffectsRan == []C2_SettledState /\ [][C2_EffectStep]_vars

C2_Witness ==
    /\ mounted
    /\ effectsPending = "none"
    /\ soundEnabled
    /\ ctxCount >= 2
    /\ Cardinality(oscillators) = 1

\* C3: an audio context that was constructed is closed by the cleanup even
\* when a later setup statement threw: every open context is the one the
\* pending cleanup holds, and none is open after unmount.
C3_ContextReleased ==
    /\ audioContexts \subseteq {audioCleanup.audioContext}
    /\ (~mounted /\ effectsPending = "none") => audioContexts = {}

\* C4: after unmount no animation request is scheduled, animate is not called
\* again and the rotation accumulators do not change.
C4_Unmounted == ~mounted => rafPending = {}

C4_Step ==
    (~mounted /\ ~mounted') => (animateRuns' = animateRuns /\ rotation' = rotation)

C4_NoLoopAfterUnmount == []C4_Unmounted /\ [][C4_Step]_vars

\* C4 as amended: once the tree is unmounted and the effect cleanup has run,
\* no animation request is scheduled and animate is not called again (the
\* cleanup cancels the request pending at that time); the rotation
\* accumulators do not change from the unmount on.
C4_CleanedUp == (~mounted /\ effectsPending = "none") => rafPending = {}

C4_CleanedUpStep ==
    /\ (~mounted /\ ~mounted') => rotation' = rotation
    /\ (~mounted /\ effectsPending = "none" /\ ~mounted')
          => animateRuns' = animateRuns

C4_NoLoopAfterCleanup == []C4_CleanedUp /\ [][C4_CleanedUpStep]_vars

\* unmounted after two frames, a callback ran between unmount and cleanup
C4_Witness ==
    /\ ~mounted
    /\ effectsPending = "none"
    /\ mounts >= 1
    /\ rotation.x >= 2
    /\ animateRuns > rotation.x
    /\ rafPending = {}

\* C5: with sound enabled, audio supported and the audio effect run for the
\* rendered state, the live tone is (40, 0.2) when hovered and (10, 0) when
\* not; the effect run for hovered = true with sound enabled replaces the
\* tone (10, 0) of the not-hovered state by (40, 0.2).
C5_Tone ==
    (mounted /\ effectsPending = "none" /\ soundEnabled /\ audioSupported) =>
        /\ hovered =>
             {<<o.frequency, o.gain>> : o \in oscillators} = {<<40, 2>>}
        /\ ~hovered =>
             {<<o.frequency, o.gain>> : o \in oscillators} = {<<10, 0>>}

C5_HoverStep ==
    (effectsPending = "update" /\ effectsPending' = "none"
       /\ audioSupported /\ soundEnabled /\ hovered)
    => /\ {<<o.frequency, o.gain>> : o \in oscillators} \subseteq {<<10, 0>>}
       /\ {<<o.frequency, o.gain>> : o \in oscillators'} = {<<40, 2>>}

C5_ToneMatchesHover == []C5_Tone /\ [][C5_HoverStep]_vars

C5_Witness ==
    /\ mounted
    /\ effectsPending = "none"
    /\ soundEnabled
    /\ hovered
    /\ audioSupported
    /\ ctxCount >= 2
    /\ \E o \in oscillators : o.frequency = 40 /\ o.gain = 2

\* C6: when Text fails while a TextLabel is rendered, TextLabel catches the
\* failure and renders the sphere marker; the failure does not leave TextLabel.
C6_TextFallback ==
    textThrew =>
        /\ ~crashed
        /\ mounted
        /\ (stageLabels = "sphere" \/ fractalLabel = "sphere")

\* C7: while mounted the container carries exactly one contextmenu and one
\* selectstart listener, and no listener is registered anywhere after
\* unmount, however many times the component was mounted.
C7_Listeners ==
    /\ mounted =>
         /\ \A e \in SuppressedEvents :
              Cardinality({l \in listeners : l[1] = mounts /\ l[2] = e}) = 1
         /\ Cardinality(listeners) = 2
    /\ ~mounted => listeners = {}

\* C7 as amended: from the run of the mount effect until the run of the
\* unmount cleanup the container carries exactly one contextmenu and one
\* selectstart listener; before and after no listener is registered anywhere,
\* however many times the component was mounted.
C7_Registered ==
    \/ mounted /\ effectsPending # "mount"
    \/ ~mounted /\ effectsPending = "unmount"

C7_ListenersBalanced ==
    /\ C7_Registered =>
         /\ \A e \in SuppressedEvents :
              Cardinality({l \in listeners : l[1] = mounts /\ l[2] = e}) = 1
         /\ Cardinality(listeners) = 2
    /\ ~C7_Registered => listeners = {}

C7_Witness ==
    /\ mounted
    /\ effectsPending = "none"
    /\ mounts >= 2
    /\ listeners # {}

\* C8: layer i is at [0, 0, 0] when not hovered and at [0, (i-2)*2, 0] when
\* hovered: the offsets are -4, -2, 0, 2, 4, symmetric around index 2.
C8_LayerPositions ==
    mounted =>
        /\ ~hovered => \A i \in 0 .. 4 : layerPosition[i] = <<0, 0, 0>>
        /\ hovered =>
             /\ layerPosition =
                  (0 :> <<0, -4, 0>> @@ 1 :> <<0, -2, 0>> @@ 2 :> <<0, 0, 0>>
                     @@ 3 :> <<0, 2, 0>> @@ 4 :> <<0, 4, 0>>)
             /\ \A i \in 0 .. 4 : layerPosition[i][2] = -layerPosition[4 - i][2]

C8_Witness ==
    /\ mounted
    /\ hovered
    /\ layerPosition[0][2] = -4
    /\ layerPosition[4][2] = 4

\* C9: pointer-over and pointer-out leave clicked, the group rotation and the
\* fractal group as they are, a click leaves hovered as it is, and the group
\* is rotated by 45 degrees exactly when clicked is true.
C9_Rendered ==
    mounted =>
        /\ (groupRotationZ = 45) <=> clicked
        /\ groupRotationZ \in {0, 45}
        /\ fractalPresent <=> clicked

C9_Step ==
    /\ (PointerOver \/ PointerOut) =>
          /\ clickedState' = clickedState
          /\ clicked' = clicked
          /\ groupRotationZ' = groupRotationZ
          /\ fractalPresent' = fractalPresent
    /\ Click => (hoveredState' = hoveredState /\ hovered' = hovered)
    /\ (mounted /\ mounted' /\ clickedState' = clickedState /\ clicked = clickedState)
          => (groupRotationZ' = groupRotationZ /\ fractalPresent' = fractalPresent)

C9_ClickIndependentOfHover == []C9_Rendered /\ [][C9_Step]_vars

C9_Witness ==
    /\ mounted
    /\ clicked
    /\ hovered
    /\ groupRotationZ = 45
    /\ nClicks >= 1

\* C10: while mounted exactly one animation request is pending, the one the
\* effect closure holds; a re-render neither cancels it nor requests another
\* nor moves the rotation; every call of animate adds 0.001 to x and 0.002 to y.
C10_Pending ==
    mounted =>
        /\ Cardinality(rafPending) = 1
        /\ \A r \in rafPending : r.id = animationId[mounts] /\ r.inst = mounts
        /\ rotation = [x |-> animateRuns, y |-> 2 * animateRuns]

C10_Step ==
    /\ (mounted /\ mounted' /\ renderVars' # renderVars)
          => (rafPending' = rafPending /\ rotation' = rotation)
    /\ (mounted /\ mounted' /\ rafPending' # rafPending)
          => /\ rotation'.x = rotation.x + 1
             /\ rotation'.y = rotation.y + 2
             /\ Cardinality(rafPending') = 1

C10_SingleLoop == []C10_Pending /\ [][C10_Step]_vars

\* C10 as amended: from the run of its animation effect on, while mounted,
\* exactly one animation request is pending, the one the effect closure
\* holds; a re-render neither cancels it nor requests another nor moves the
\* rotation; every call of animate adds 0.001 to x and 0.002 to y.
C10_PendingOnceStarted ==
    /\ (mounted /\ effectsPending # "mount") =>
          /\ Cardinality(rafPending) = 1
          /\ \A r \in rafPending : r.id = animationId[mounts] /\ r.inst = mounts
    /\ (mounted /\ effectsPending = "mount") => rafPending = {}
    /\ mounted => rotation = [x |-> animateRuns, y |-> 2 * animateRuns]

C10_SingleLoopOnceStarted == []C10_PendingOnceStarted /\ [][C10_Step]_vars

C10_Witness ==
    /\ mounted
    /\ effectsPending = "none"
    /\ animateRuns >= 2
    /\ hovered
    /\ clicked
    /\ highContrast
====
